---- MODULE Spec2Model ----
(***************************************************************************)
(* Model of the request signing / transport layer (utils.rs: Signer) and   *)
(* of the account lookups built on it (account.rs: AccountAPI).            *)
(*                                                                         *)
(* Rust Strings are TLA+ strings (\o is format!/concatenation, Head/Tail   *)
(* give access to the characters).  Option<T> is a record [some, v].       *)
(* Result<T> is a record [ok, kind, value]: kind is "Ok" or the CBAdvError *)
(* variant, value the payload.  An unwrap()/expect() on an Err is a panic: *)
(* the operation never returns and pc becomes "panicked".                  *)
(***************************************************************************)
EXTENDS Integers, Sequences, FiniteSets, TLC

VARIABLES
    api_key,      \* Signer.api_key
    api_secret,   \* Signer.api_secret
    now,          \* the clock read by time::now()
    pc,           \* "idle", "get_by_id" (a lookup frame is pending), "returned", "panicked"
    op,           \* the public operation called last
    resource,     \* the resource path handed to the Signer by that operation
    id,           \* get_by_id: the id looked up
    given,        \* get_by_id: the caller's Option<ListAccountsParams>
    params,       \* get_by_id: the ListAccountsParams of the pending frame
    requests,     \* HTTP requests sent by the operation, oldest first
    responses,    \* what send() gave for each of them
    result        \* the operation's return value

vars == <<api_key, api_secret, now, pc, op, resource, id, given, params,
          requests, responses, result>>

-----------------------------------------------------------------------------
(* Bounds of the exploration.                                              *)

\* Listing requests of one lookup that are explored under Spec, which keeps
\* all of them in the logs.
MaxPages == 3

\* Ticks of the clock that are explored.
MaxClock == 1

-----------------------------------------------------------------------------
(* Program constants.                                                      *)

ROOT_URI == "https://api.coinbase.com"

RESOURCE == "/api/v3/brokerage/accounts"

StatusOK == 200

-----------------------------------------------------------------------------
(* Values.                                                                 *)

Some(x) == [some |-> TRUE, v |-> x]

NoneInt == [some |-> FALSE, v |-> 0]

NoneStr == [some |-> FALSE, v |-> ""]

Ok(x) == [ok |-> TRUE, kind |-> "Ok", value |-> x]

Err(k, msg) == [ok |-> FALSE, kind |-> k, value |-> msg]

NoResult == [ok |-> FALSE, kind |-> "None", value |-> ""]

CBAdvError == {"BadParse", "BadStatus", "BadConnection", "NothingToDo", "NotFound", "Unknown"}

\* An Account, reduced to the two fields the lookups read or that tell two
\* accounts of one currency apart.
Account(u, c) == [uuid |-> u, currency |-> c]

ListAccountsParams(l, c) == [limit |-> l, cursor |-> c]

ListAccountsParamsDefault == ListAccountsParams(NoneInt, NoneStr)

-----------------------------------------------------------------------------
(* Inputs: what callers pass and what the server may answer.               *)

ApiKeys == {"key-1", "key\n2"}

ApiSecrets == {"s3cret"}

Resources == {RESOURCE, "/api/v3/brokerage/orders"}

Queries == {"", "limit=2", "product_id=BTC-USD"}

Uuids == {"u1", "u2"}

Ids == {"BTC", "ETH"}

Limits == {NoneInt, Some(2)}

Cursors == {"c1", "c2"}

GivenParams == {[some |-> FALSE, v |-> ListAccountsParamsDefault]}
    \cup {[some |-> TRUE, v |-> ListAccountsParams(l, c)] :
            l \in Limits, c \in {NoneStr, Some("c0")}}

Pages == { <<>>,
           <<Account("u2", "ETH")>>,
           <<Account("u2", "ETH"), Account("u1", "BTC")>>,
           <<Account("u1", "BTC"), Account("u3", "BTC")>>,
           <<Account("u3", "BTC"), Account("u2", "ETH"), Account("u1", "BTC")>> }

\* A POST body: the (key, value) entries of a map.  serde_json refuses a map
\* whose key is not a string.
Entry(k, v, s) == [k |-> k, v |-> v, key_is_string |-> s]

PostBodies == { <<>>,
                <<Entry("side", "BUY", TRUE)>>,
                <<Entry("side", "BUY", TRUE), Entry("size", "1", TRUE)>>,
                <<Entry("7", "x", FALSE)>> }

Garbage == [shape |-> "garbage"]

\* A page that has a successor names it by a cursor; the last page has none.
Listing(a, h, c) ==
    [shape |-> "listing", accounts |-> a, has_next |-> h, cursor |-> c, size |-> Len(a)]

Listings == {Listing(a, TRUE, c) : a \in Pages, c \in Cursors}
    \cup {Listing(a, FALSE, "") : a \in Pages}

AccountResponses == {[shape |-> "account", account |-> Account(u, "BTC")] : u \in Uuids}

TransportError == [send |-> "err", status |-> 0, readable |-> FALSE, text |-> "", json |-> Garbage]

HttpResponse(s, r, t, j) == [send |-> "ok", status |-> s, readable |-> r, text |-> t, json |-> j]

\* What send() may give: a transport error, a 200 with a JSON document, a
\* non-200 whose body can or cannot be read.
Responses == {TransportError}
    \cup {HttpResponse(StatusOK, TRUE, "json", j) :
            j \in Listings \cup AccountResponses \cup {Garbage}}
    \cup {HttpResponse(s, TRUE, "denied", Garbage) : s \in {201, 404}}
    \cup {HttpResponse(s, FALSE, "", Garbage) : s \in {204, 500}}

-----------------------------------------------------------------------------
(* utils.rs                                                                *)

\* time::now().to_string()
Timestamp == ToString(now)

\* hex(HMAC-SHA256(key, msg)): a keyed hash, taken to be collision free.
HmacSha256Hex(key, msg) == "hmac-sha256[" \o key \o "](" \o msg \o ")"

\* api_key.parse::<HeaderValue>(): no character is a control character other
\* than a tab (line feed, carriage return and form feed are the ones tried).
RECURSIVE IsValidHeaderValue(_)
IsValidHeaderValue(s) ==
    IF Len(s) = 0 THEN TRUE
    ELSE Head(s) \notin {"\n", "\r", "\f"} /\ IsValidHeaderValue(Tail(s))

\* format!("{}{}{}{}", timestamp, method, resource, body)
Prehash(timestamp, method, res, body) == timestamp \o method \o res \o body

\* get_http_signature with the timestamp sampled once, when the Signer was
\* made, instead of at every request.
get_http_signature_CachedTimestamp(method, res, body) ==
    LET timestamp == ToString(0)
        sign == HmacSha256Hex(api_secret, Prehash(timestamp, method, res, body))
    IN  IF ~IsValidHeaderValue(api_key)
        THEN [panicked |-> TRUE, headers |-> <<>>]
        ELSE [panicked |-> FALSE,
              headers |-> [n \in {"CB-ACCESS-KEY", "CB-ACCESS-SIGN", "CB-ACCESS-TIMESTAMP"} |->
                            CASE n = "CB-ACCESS-KEY" -> api_key
                              [] n = "CB-ACCESS-SIGN" -> sign
                              [] OTHER -> timestamp]]

\* Signer::get_http_signature: the header map, or a panic when the key is
\* no header value.  (The hex signature and the decimal timestamp always
\* parse; HMAC takes a key of any length.)
get_http_signature(method, res, body) ==
    LET timestamp == Timestamp
        sign == HmacSha256Hex(api_secret, Prehash(timestamp, method, res, body))
    IN  IF ~IsValidHeaderValue(api_key)
        THEN [panicked |-> TRUE, headers |-> <<>>]
        ELSE [panicked |-> FALSE,
              headers |-> [n \in {"CB-ACCESS-KEY", "CB-ACCESS-SIGN", "CB-ACCESS-TIMESTAMP"} |->
                            CASE n = "CB-ACCESS-KEY" -> api_key
                              [] n = "CB-ACCESS-SIGN" -> sign
                              [] OTHER -> timestamp]]

\* The URL of a request.
Url(res, query) ==
    LET prefix == IF query = "" THEN "" ELSE "?"
        target == prefix \o query
    IN  ROOT_URI \o res \o target

\* Classify with every 2xx status taken for success.
Classify_Any2xx(resp, what) ==
    IF resp.send = "ok"
    THEN IF resp.status >= 200 /\ resp.status < 300
         THEN Ok(resp)
         ELSE LET code == "Status Code: " \o ToString(resp.status)
              IN  IF resp.readable
                  THEN Err("BadStatus", code \o ", " \o resp.text)
                  ELSE Err("BadStatus", code \o ", could not parse error message")
    ELSE Err("Unknown", what \o " request to API")

\* The match on send()'s result, shared by get and post.
Classify(resp, what) ==
    IF resp.send = "ok"
    THEN IF resp.status = StatusOK
         THEN Ok(resp)
         ELSE LET code == "Status Code: " \o ToString(resp.status)
              IN  IF resp.readable
                  THEN Err("BadStatus", code \o ", " \o resp.text)
                  ELSE Err("BadStatus", code \o ", could not parse error message")
    ELSE Err("Unknown", what \o " request to API")

\* The outcome of one Signer call: whether it panicked, the request it sent
\* (none after a panic), the response it got and its return value.
Panicked == [panicked |-> TRUE, sent |-> <<>>, got |-> <<>>, result |-> NoResult]

Returned(req, resp, res) == [panicked |-> FALSE, sent |-> <<req>>, got |-> <<resp>>, result |-> res]

\* Signer::get signing the resource together with its query string.
Signer_get_SignsQuery(res, query, resp) ==
    LET url == Url(res, query)
        sig == get_http_signature("GET", res \o (IF query = "" THEN "" ELSE "?" \o query), "")
    IN  IF sig.panicked THEN Panicked
        ELSE Returned([method |-> "GET", url |-> url, headers |-> sig.headers, body |-> ""],
                      resp, Classify(resp, "GET"))

\* Signer::get sending the request a second time when send() fails.
Signer_get_Retry(res, query, resp) ==
    LET url == Url(res, query)
        sig == get_http_signature("GET", res, "")
        req == [method |-> "GET", url |-> url, headers |-> sig.headers, body |-> ""]
    IN  IF sig.panicked THEN Panicked
        ELSE IF resp.send = "err"
        THEN [panicked |-> FALSE, sent |-> <<req, req>>, got |-> <<resp, resp>>,
              result |-> Classify(resp, "GET")]
        ELSE Returned(req, resp, Classify(resp, "GET"))

\* Signer::get
Signer_get(res, query, resp) ==
    LET url == Url(res, query)
        sig == get_http_signature("GET", res, "")
    IN  IF sig.panicked THEN Panicked
        ELSE Returned([method |-> "GET", url |-> url, headers |-> sig.headers, body |-> ""],
                      resp, Classify(resp, "GET"))

\* serde_json::to_string(&body): the JSON text of the map, or an error when
\* a key is not a string.
RECURSIVE JsonEntries(_)
JsonEntries(entries) ==
    IF Len(entries) = 0 THEN ""
    ELSE LET e == Head(entries)
             text == "\"" \o e.k \o "\":\"" \o e.v \o "\""
         IN  IF Len(entries) = 1 THEN text
             ELSE text \o "," \o JsonEntries(Tail(entries))

to_string(body) ==
    IF \E i \in 1..Len(body) : ~body[i].key_is_string
    THEN [ok |-> FALSE, text |-> ""]
    ELSE [ok |-> TRUE, text |-> "{" \o JsonEntries(body) \o "}"]

\* Signer::post
Signer_post(res, query, body, resp) ==
    LET url == Url(res, query)
        body_str == to_string(body)
        sig == get_http_signature("POST", res, body_str.text)
    IN  IF ~body_str.ok \/ sig.panicked THEN Panicked
        ELSE Returned([method |-> "POST", url |-> url,
                       headers |-> sig.headers @@ ("Content-Type" :> "application/json"),
                       body |-> body_str.text],
                      resp, Classify(resp, "POST"))

-----------------------------------------------------------------------------
(* account.rs                                                              *)

\* ListAccountsParams::to_params
to_params(p) ==
    LET p1 == IF p.limit.some THEN "" \o "&limit=" \o ToString(p.limit.v) ELSE ""
        p2 == IF p.cursor.some THEN p1 \o "&cursor=" \o p.cursor.v ELSE p1
    IN  IF p2 = "" THEN p2 ELSE SubSeq(p2, 2, Len(p2))

\* response.json::<T>() for the two payload types, as a Result.
Json(resp, shape, what) ==
    IF resp.json.shape = shape THEN Ok(resp.json) ELSE Err("BadParse", what)

\* AccountAPI::get
AccountAPI_get(account_uuid, resp) ==
    LET o == Signer_get(RESOURCE \o "/" \o account_uuid, "", resp)
    IN  IF o.panicked \/ ~o.result.ok THEN o
        ELSE LET parsed == Json(resp, "account", "account object")
             IN  [o EXCEPT !.result = IF parsed.ok THEN Ok(parsed.value.account) ELSE parsed]

\* AccountAPI::get_bulk
get_bulk(p, resp) ==
    LET o == Signer_get(RESOURCE, to_params(p), resp)
    IN  IF o.panicked \/ ~o.result.ok THEN o
        ELSE [o EXCEPT !.result = Json(resp, "listing", "accounts vector")]

\* position taking the last account of the currency instead of the first.
position_Last(accounts, cur) ==
    LET hits == {i \in 1..Len(accounts) : accounts[i].currency = cur}
    IN  IF hits = {} THEN 0 ELSE CHOOSE i \in hits : \A j \in hits : i >= j

\* listed.accounts.iter().position(|r| r.currency == id): the first index
\* (from 1) of an account of that currency, 0 for None.
position(accounts, cur) ==
    LET hits == {i \in 1..Len(accounts) : accounts[i].currency = cur}
    IN  IF hits = {} THEN 0 ELSE CHOOSE i \in hits : \A j \in hits : i <= j

\* Vec::swap_remove(index): the element removed; the last element takes its
\* place in what is left.
swap_remove(v, index) ==
    LET n == Len(v)
    IN  [removed |-> v[index],
         rest |-> [i \in 1..(n - 1) |-> IF i = index THEN v[n] ELSE v[i]]]

\* get_by_id with the test of has_next inverted.
get_by_id_InvertedHasNext(cur, p, resp) ==
    LET o == get_bulk(p, resp)
        stop == [panicked |-> o.panicked, sent |-> o.sent, got |-> o.got,
                 result |-> o.result, recurse |-> FALSE, next |-> p]
    IN  IF o.panicked \/ ~o.result.ok THEN stop
        ELSE LET listed == o.result.value
                 index == position(listed.accounts, cur)
             IN  IF index # 0
                 THEN [stop EXCEPT !.result = Ok(swap_remove(listed.accounts, index).removed)]
                 ELSE IF listed.has_next
                 THEN [stop EXCEPT !.result = Err("NotFound", "no matching ids")]
                 ELSE [stop EXCEPT !.result = NoResult, !.recurse = TRUE,
                                   !.next = [p EXCEPT !.cursor = Some(listed.cursor)]]

\* get_by_id giving up after any page without a match.
get_by_id_SinglePage(cur, p, resp) ==
    LET o == get_bulk(p, resp)
        stop == [panicked |-> o.panicked, sent |-> o.sent, got |-> o.got,
                 result |-> o.result, recurse |-> FALSE, next |-> p]
    IN  IF o.panicked \/ ~o.result.ok THEN stop
        ELSE LET listed == o.result.value
                 index == position(listed.accounts, cur)
             IN  IF index # 0
                 THEN [stop EXCEPT !.result = Ok(swap_remove(listed.accounts, index).removed)]
                 ELSE [stop EXCEPT !.result = Err("NotFound", "no matching ids")]

\* get_by_id calling itself with the cursor it was called with.
get_by_id_StaleCursor(cur, p, resp) ==
    LET o == get_bulk(p, resp)
        stop == [panicked |-> o.panicked, sent |-> o.sent, got |-> o.got,
                 result |-> o.result, recurse |-> FALSE, next |-> p]
    IN  IF o.panicked \/ ~o.result.ok THEN stop
        ELSE LET listed == o.result.value
                 index == position(listed.accounts, cur)
             IN  IF index # 0
                 THEN [stop EXCEPT !.result = Ok(swap_remove(listed.accounts, index).removed)]
                 ELSE IF ~listed.has_next
                 THEN [stop EXCEPT !.result = Err("NotFound", "no matching ids")]
                 ELSE [stop EXCEPT !.result = NoResult, !.recurse = TRUE,
                                   !.next = p]

\* One frame of AccountAPI::get_by_id, given the frame's params and what
\* send() gives: the outcome of its get_bulk, and either the frame's return
\* value or the params of the recursive call.
get_by_id(cur, p, resp) ==
    LET o == get_bulk(p, resp)
        stop == [panicked |-> o.panicked, sent |-> o.sent, got |-> o.got,
                 result |-> o.result, recurse |-> FALSE, next |-> p]
    IN  IF o.panicked \/ ~o.result.ok THEN stop
        ELSE LET listed == o.result.value
                 index == position(listed.accounts, cur)
             IN  IF index # 0
                 THEN [stop EXCEPT !.result = Ok(swap_remove(listed.accounts, index).removed)]
                 ELSE IF ~listed.has_next
                 THEN [stop EXCEPT !.result = Err("NotFound", "no matching ids")]
                 ELSE [stop EXCEPT !.result = NoResult, !.recurse = TRUE,
                                   !.next = [p EXCEPT !.cursor = Some(listed.cursor)]]

-----------------------------------------------------------------------------
(* Operations.                                                             *)

Init ==
    /\ api_key \in ApiKeys
    /\ api_secret \in ApiSecrets
    /\ now = 0
    /\ pc = "idle"
    /\ op = "none"
    /\ resource = ""
    /\ id = ""
    /\ given = [some |-> FALSE, v |-> ListAccountsParamsDefault]
    /\ params = ListAccountsParamsDefault
    /\ requests = <<>>
    /\ responses = <<>>
    /\ result = NoResult

Callable == pc = "idle"

\* The effect of an operation that is one Signer call or one call wrapped.
Finish(name, res, o) ==
    /\ op' = name
    /\ resource' = res
    /\ pc' = IF o.panicked THEN "panicked" ELSE "returned"
    /\ requests' = o.sent
    /\ responses' = o.got
    /\ result' = o.result
    /\ UNCHANGED <<api_key, api_secret, now, id, given, params>>

\* The clock advances.
Tick ==
    /\ now < MaxClock
    /\ now' = now + 1
    /\ UNCHANGED <<api_key, api_secret, pc, op, resource, id, given, params,
                   requests, responses, result>>

\* The caller takes the value an operation returned; the Signer is ready
\* for the next call.
Consume ==
    /\ pc = "returned"
    /\ pc' = "idle"
    /\ op' = "none"
    /\ resource' = ""
    /\ id' = ""
    /\ given' = [some |-> FALSE, v |-> ListAccountsParamsDefault]
    /\ params' = ListAccountsParamsDefault
    /\ requests' = <<>>
    /\ responses' = <<>>
    /\ result' = NoResult
    /\ UNCHANGED <<api_key, api_secret, now>>

\* A caller runs Signer::get.
CallSignerGet ==
    /\ Callable
    /\ \E res \in Resources, query \in Queries, resp \in Responses :
         \E o \in {Signer_get(res, query, resp)} : Finish("Signer.get", res, o)

\* A caller runs Signer::post.
CallSignerPost ==
    /\ Callable
    /\ \E res \in Resources, query \in Queries, body \in PostBodies, resp \in Responses :
         \E o \in {Signer_post(res, query, body, resp)} : Finish("Signer.post", res, o)

\* A caller runs AccountAPI::get.
CallGet ==
    /\ Callable
    /\ \E u \in Uuids, resp \in Responses :
         \E o \in {AccountAPI_get(u, resp)} :
           Finish("AccountAPI.get", RESOURCE \o "/" \o u, o)

\* A caller runs AccountAPI::get_bulk.
CallGetBulk ==
    /\ Callable
    /\ \E g \in GivenParams, resp \in Responses :
         \E o \in {get_bulk(g.v, resp)} : Finish("AccountAPI.get_bulk", RESOURCE, o)

\* A caller calls AccountAPI::get_by_id: the outermost frame is entered with
\* the caller's params, or the default ones for None.
CallGetById ==
    /\ Callable
    /\ \E cur \in Ids, g \in GivenParams :
         /\ id' = cur
         /\ given' = g
         /\ params' = IF g.some THEN g.v ELSE ListAccountsParamsDefault
    /\ op' = "AccountAPI.get_by_id"
    /\ resource' = RESOURCE
    /\ pc' = "get_by_id"
    /\ requests' = <<>>
    /\ responses' = <<>>
    /\ result' = NoResult
    /\ UNCHANGED <<api_key, api_secret, now>>

\* The last keep entries of a log that grew by at most one entry.
Window(log, keep) == IF Len(log) > keep THEN Tail(log) ELSE log

\* The pending frame of get_by_id runs: it lists one page and returns (its
\* value is the value of every enclosing frame) or calls itself.
Frame(keep) ==
    /\ pc = "get_by_id"
    /\ \E resp \in Responses :
         \E o \in {get_by_id(id, params, resp)} :
             /\ pc' = IF o.panicked THEN "panicked"
                      ELSE IF o.recurse THEN "get_by_id" ELSE "returned"
             /\ params' = o.next
             /\ requests' = Window(requests \o o.sent, keep)
             /\ responses' = Window(responses \o o.got, keep)
             /\ result' = o.result
    /\ UNCHANGED <<api_key, api_secret, now, op, resource, id, given>>

\* Frame, for the first MaxPages listing requests of a lookup.
GetByIdFrame == Len(requests) < MaxPages /\ Frame(MaxPages)

\* Frame, for every listing request of a lookup that may go on without
\* bound; the logs keep the latest request and response only.
GetByIdFrameUnbounded == Frame(1)

Next ==
    \/ Tick
    \/ Consume
    \/ CallSignerGet
    \/ CallSignerPost
    \/ CallGet
    \/ CallGetBulk
    \/ CallGetById
    \/ GetByIdFrame

Spec == Init /\ [][Next]_vars

\* The lookups alone, each going on for as long as the server makes it.
LiveNext ==
    \/ Tick
    \/ Consume
    \/ CallGetById
    \/ GetByIdFrameUnbounded

\* The runtime keeps polling a pending lookup and every send() completes.
LiveSpec == Init /\ [][LiveNext]_vars /\ WF_vars(GetByIdFrameUnbounded)

-----------------------------------------------------------------------------
(* Properties.                                                             *)

Last(log) == log[Len(log)]

SignerOps == {"Signer.get", "Signer.post"}

SingleCallOps == SignerOps \cup {"AccountAPI.get", "AccountAPI.get_bulk"}

\* resp is a page the lookup could list: a 200 carrying an accounts listing.
ListedPage(resp) ==
    resp.send = "ok" /\ resp.status = 200 /\ resp.json.shape = "listing"

HasMatch(resp, cur) ==
    ListedPage(resp) /\ \E i \in 1..Len(resp.json.accounts) : resp.json.accounts[i].currency = cur

NoMatch(resp, cur) ==
    ListedPage(resp) /\ \A i \in 1..Len(resp.json.accounts) : resp.json.accounts[i].currency # cur

\* C1: when send() of Signer.get or Signer.post gave a response, the call
\* returns that response as success if its status is 200, and otherwise (201
\* and 204 included) BadStatus with the status code and the body text, or a
\* placeholder when the body cannot be read.
C1_StatusClassification ==
    (pc = "returned" /\ op \in SignerOps /\ Len(responses) = 1 /\ responses[1].send = "ok")
    => LET r == responses[1]
       IN  IF r.status = 200
           THEN result.ok /\ result.value = r
           ELSE /\ ~result.ok
                /\ result.kind = "BadStatus"
                /\ result.value = "Status Code: " \o ToString(r.status) \o ", "
                                  \o (IF r.readable THEN r.text
                                      ELSE "could not parse error message")

C1_Witness ==
    /\ pc = "returned" /\ op = "Signer.post" /\ Len(responses) = 1
    /\ responses[1].send = "ok" /\ responses[1].status = 201
    /\ result.kind = "BadStatus"

\* C2: a transport failure of send() makes Signer.get and Signer.post return
\* BadConnection.
C2_TransportFailureIsBadConnection ==
    (pc = "returned" /\ op \in SignerOps /\ Len(responses) = 1 /\ responses[1].send = "err")
    => result.kind = "BadConnection"

\* C3: get_by_id returns NotFound exactly when the page listed last has no
\* account of the id and has_next = false; then every earlier page had no
\* match and has_next = true, and no request follows the last page.
C3_NotFoundExactlyOnExhaustion ==
    (pc = "returned" /\ op = "AccountAPI.get_by_id")
    => LET n == Len(responses)
           exhausted == n > 0 /\ NoMatch(responses[n], id) /\ ~responses[n].json.has_next
       IN  /\ (result.kind = "NotFound") <=> exhausted
           /\ result.kind = "NotFound"
              => /\ Len(requests) = n
                 /\ \A k \in 1..(n - 1) :
                      NoMatch(responses[k], id) /\ responses[k].json.has_next

C3_Witness ==
    /\ pc = "returned" /\ op = "AccountAPI.get_by_id"
    /\ result.kind = "NotFound" /\ Len(requests) = 2
    /\ Len(responses[2].json.accounts) > 0

\* The first account of the currency in the order of the list.
FirstMatch(accounts, cur) ==
    accounts[CHOOSE i \in 1..Len(accounts) :
                /\ accounts[i].currency = cur
                /\ \A j \in 1..(i - 1) : accounts[j].currency # cur]

\* C4: when a listed page has an account of the id, it is the last page
\* requested, the lookup has returned the first such account of that page,
\* and the requests issued number the page's position.
C4_FirstMatchOnEarliestPage ==
    op = "AccountAPI.get_by_id"
    => \A k \in 1..Len(responses) :
         HasMatch(responses[k], id)
         => /\ k = Len(responses)
            /\ Len(requests) = k
            /\ pc = "returned"
            /\ result.ok
            /\ result.value = FirstMatch(responses[k].json.accounts, id)

C4_Witness ==
    /\ pc = "returned" /\ op = "AccountAPI.get_by_id" /\ id = "BTC"
    /\ Len(requests) = 2 /\ result.ok
    /\ responses[2].json.accounts = <<Account("u3", "BTC"), Account("u2", "ETH"), Account("u1", "BTC")>>
    /\ result.value = Account("u3", "BTC")

\* The answer to the lookup's latest request has no match and has_next = true.
LastContinues ==
    responses # <<>> /\ NoMatch(Last(responses), id) /\ Last(responses).json.has_next

\* C5: a lookup that goes on forever is one that is from some point on
\* answered only by pages with no match and has_next = true (so it returns
\* once the server answers with a match, has_next = false or an error), and
\* a lookup answered by such a page does not return: there is no page cap.
C5_TerminationOnlyByServer ==
    /\ <>[](pc = "get_by_id") => <>[](pc = "get_by_id" /\ LastContinues)
    /\ [][(pc = "get_by_id" /\ LastContinues') => pc' = "get_by_id"]_vars

C5_Witness ==
    /\ pc = "get_by_id" /\ LastContinues
    /\ params.cursor = Some("c2")
    /\ Last(requests).url = ROOT_URI \o RESOURCE \o "?cursor=c1"

\* C6: the signature of every request is the keyed hash of timestamp, method,
\* resource path and body text in that order, the body text of a GET being
\* empty and the query string no part of it: requests of one timestamp,
\* method and body to one resource carry one signature, whatever their URLs.
C6_SignatureExcludesQuery ==
    /\ \A i \in 1..Len(requests) :
         LET r == requests[i]
         IN  /\ r.method = "GET" => r.body = ""
             /\ r.headers["CB-ACCESS-SIGN"] =
                  HmacSha256Hex(api_secret,
                      r.headers["CB-ACCESS-TIMESTAMP"] \o r.method \o resource \o r.body)
    /\ \A i, j \in 1..Len(requests) :
         (/\ requests[i].headers["CB-ACCESS-TIMESTAMP"] = requests[j].headers["CB-ACCESS-TIMESTAMP"]
          /\ requests[i].method = requests[j].method
          /\ requests[i].body = requests[j].body)
         => requests[i].headers["CB-ACCESS-SIGN"] = requests[j].headers["CB-ACCESS-SIGN"]

C6_Witness ==
    /\ Len(requests) >= 2
    /\ requests[1].url # requests[2].url
    /\ requests[1].headers["CB-ACCESS-TIMESTAMP"] = requests[2].headers["CB-ACCESS-TIMESTAMP"]
    /\ requests[1].headers["CB-ACCESS-SIGN"] = requests[2].headers["CB-ACCESS-SIGN"]

\* C7: every public operation ends by returning a success value or one of
\* the six error kinds; none aborts.
C7_AlwaysReturnsAResult ==
    /\ pc # "panicked"
    /\ pc = "returned" => (result.ok \/ result.kind \in CBAdvError)

\* The query string that carries a limit and a cursor, each optional.
QueryOf(limit, cursor) ==
    CASE limit.some /\ cursor.some -> "limit=" \o ToString(limit.v) \o "&cursor=" \o cursor.v
      [] limit.some /\ ~cursor.some -> "limit=" \o ToString(limit.v)
      [] ~limit.some /\ cursor.some -> "cursor=" \o cursor.v
      [] OTHER -> ""

UrlOf(query) ==
    IF query = "" THEN ROOT_URI \o RESOURCE ELSE ROOT_URI \o RESOURCE \o "?" \o query

\* C8: the first listing request of a lookup carries the caller's limit and
\* cursor (neither when the caller gave no params), every later one the
\* caller's limit and the cursor of the response just before it.
C8_CursorThreading ==
    op = "AccountAPI.get_by_id"
    => LET first == IF given.some THEN given.v ELSE [limit |-> NoneInt, cursor |-> NoneStr]
       IN  /\ params.limit = first.limit
           /\ \A k \in 1..Len(requests) :
                requests[k].url =
                    UrlOf(QueryOf(first.limit,
                                  IF k = 1 THEN first.cursor
                                  ELSE Some(responses[k - 1].json.cursor)))

C8_Witness ==
    /\ op = "AccountAPI.get_by_id" /\ given.some /\ given.v.limit = Some(2)
    /\ given.v.cursor = Some("c0")
    /\ Len(requests) = 3
    /\ requests[1].url = ROOT_URI \o RESOURCE \o "?limit=2&cursor=c0"
    /\ requests[2].url = ROOT_URI \o RESOURCE \o "?limit=2&cursor=c2"
    /\ requests[3].url = ROOT_URI \o RESOURCE \o "?limit=2&cursor=c1"

\* A listing request that failed: no response, a status other than 200, or
\* a body that is no accounts listing.
FailedKind(resp) ==
    IF resp.send = "err" THEN "Unknown"
    ELSE IF resp.status # 200 THEN "BadStatus"
    ELSE IF resp.json.shape # "listing" THEN "BadParse"
    ELSE "Ok"

\* C9: nothing is retried.  An operation that is one Signer call has issued
\* exactly one request when it returns; a lookup ends with the first listing
\* request that fails, returns that error and issues no request after it.
C9_NoRetry ==
    /\ op \in SingleCallOps => Len(requests) = IF pc = "returned" THEN 1 ELSE 0
    /\ op = "AccountAPI.get_by_id"
       => /\ Len(requests) = Len(responses)
          /\ \A k \in 1..Len(responses) :
               FailedKind(responses[k]) # "Ok"
               => /\ k = Len(responses)
                  /\ pc = "returned"
                  /\ ~result.ok
                  /\ result.kind = FailedKind(responses[k])

C9_Witness ==
    /\ op = "AccountAPI.get_by_id" /\ pc = "returned"
    /\ Len(requests) = 2
    /\ responses[2].send = "err"
    /\ ~result.ok

\* C10: a request just sent carries the clock's reading as its timestamp,
\* and its signature covers that timestamp and the body text it transmits,
\* which for a POST is the JSON text of the body.
C10_SignedWhatIsSent ==
    [][(requests' # requests /\ requests' # <<>>)
       => LET r == Last(requests')
          IN  /\ r.headers["CB-ACCESS-TIMESTAMP"] = ToString(now)
              /\ r.headers["CB-ACCESS-SIGN"] =
                   HmacSha256Hex(api_secret, ToString(now) \o r.method \o resource' \o r.body)
              /\ r.method = "POST"
                 => /\ Len(r.body) >= 2
                    /\ Head(r.body) = "{"
                    /\ r.headers["Content-Type"] = "application/json"]_vars

C10_Witness ==
    /\ op = "Signer.post" /\ pc = "returned" /\ now = 1
    /\ requests[1].headers["CB-ACCESS-TIMESTAMP"] = "1"
    /\ requests[1].body = "{\"side\":\"BUY\",\"size\":\"1\"}"

====
